---- MODULE Spec2Model ----
(***************************************************************************)
(* Model of the calculation-parameter resolver of captest                  *)
(* (src/src/captest/util.py: update_by_path, process_reg_cols), of        *)
(* get_common_timestep and reindex_datetime of the same file, and of the   *)
(* reactive filter chain (src/captest/filters.py).                         *)
(*                                                                         *)
(* Python objects:                                                         *)
(*   a str               [t |-> "str", s |-> ...]                          *)
(*   a tuple of two strs [t |-> "agg", g |-> group_id, a |-> agg_func]     *)
(*   a tuple (func, map) [t |-> "fn", f |-> func.__name__, d |-> dict id]  *)
(*   a reference to dict [t |-> "dict", d |-> dict id]                     *)
(* Dicts are mutable objects with identity: original_calc_params maps a    *)
(* dict id to the dict's items in insertion order; the id of a dict is the *)
(* dict_path that reaches it from the root dict (id << >>).  The tuple     *)
(* index 1 of a dict_path is written "1".                                  *)
(*                                                                         *)
(* Specifications: Spec (process_reg_cols), SpecRun (Spec with weak        *)
(* fairness of the steps inside a call), SpecFilters (the filter chain),   *)
(* SpecUpdate (update_by_path alone), SpecReindex (reindex_datetime).      *)
(***************************************************************************)
EXTENDS Integers, Sequences, FiniteSets, TLC

VARIABLES
    original_calc_params, \* dict id -> items of that dict (the spec tree, mutated in place)
    column_groups,        \* cd.column_groups: group id -> sequence of column names
    columns,              \* cd.data.columns, in creation order
    cdKind,               \* which container class cd is: "CapData" or "DummyCapData"
    stack,                \* active calls of process_reg_cols, outermost first
    agg_cache,            \* (group_id, agg_func) -> aggregated column name, one per pass
    phase,                \* "ready", "running", "returned" or "raised"
    passes,               \* number of top-level calls of process_reg_cols so far
    given,                \* the specification as the caller wrote it (never changes)
    atCall,               \* original_calc_params and columns when the current pass began
    aggCalls,             \* cd.agg_group invocations of the current pass, in order
    fnCalls,              \* derivation-function invocations of the current pass, in order
    rewrites,             \* aggregation nodes rewritten in the current pass, in order
    exception,            \* the exception that ended the pass, or "none"
    restarts,             \* restarts from the root made in the current pass
    cd_data,              \* CapTest.cd.data, the base dataset (or None)
    steps,                \* CapTest.steps, the filter nodes in chain order
    step_widgets,         \* CapTest.step_widgets, one widget per step
    error,                \* the uncaught exception that ended the session, or "none"
    warned,               \* the warnings emitted so far
    ran,                  \* the _update_value calls of the last operation, in order
    op,                   \* the function of util.py called on its own, or "none"
    call_args,            \* the arguments of that call
    result                \* what the call returned or raised; << >> before it ran

resolverVars == <<original_calc_params, column_groups, columns, cdKind, stack,
                  agg_cache, phase, passes, given, atCall, aggCalls, fnCalls,
                  rewrites, exception, restarts>>

filterVars == <<cd_data, steps, step_widgets, error, warned, ran>>

utilVars == <<op, call_args, result>>

vars == <<resolverVars, filterVars, utilVars>>

MaxPasses == 2
MaxSteps == 2
\* the interpreter's limit on nested calls, counted in active calls of
\* process_reg_cols
RecursionLimit == 64

Range(s) == {s[i] : i \in DOMAIN s}

----------------------------------------------------------------------------
(* Python values *)

Str(s) == [t |-> "str", s |-> s]
Agg(g, a) == [t |-> "agg", g |-> g, a |-> a]
Fn(f, d) == [t |-> "fn", f |-> f, d |-> d]
Dict(d) == [t |-> "dict", d |-> d]
Callable(f) == [t |-> "callable", f |-> f]
None == [t |-> "none"]
Raised == [t |-> "raise"]
Item(k, v) == [k |-> k, v |-> v]
Root == << >>

\* only a tuple of two strs counts as a tuple
IsTuple_aggOnly(v) == v.t = "agg"
\* isinstance(calc_inputs, tuple)
IsTuple(v) == v.t \in {"agg", "fn"}

HasKey(items, key) == \E i \in DOMAIN items : items[i].k = key
GetItem(items, key) == items[CHOOSE i \in DOMAIN items : items[i].k = key].v
SetItem(items, key, val) ==
    IF HasKey(items, key)
    THEN [i \in DOMAIN items |->
            IF items[i].k = key THEN Item(key, val) ELSE items[i]]
    ELSE Append(items, Item(key, val))

----------------------------------------------------------------------------
(* update_by_path *)

\* one character of a str
Char == [t |-> "char"]

\* current[key] (util.py lines 191 and 195).  Every str of the model has two
\* characters or more: subscripting it with 0 or 1 gives a one-character
\* str, whose subscript 1 raises IndexError; a str subscripted with a str
\* raises TypeError, and so does a callable.
Subscript(h, current, key) ==
    IF current.t = "dict"
    THEN IF HasKey(h[current.d], key) THEN GetItem(h[current.d], key) ELSE Raised
    ELSE IF current.t = "fn"
    THEN IF key = "1" THEN Dict(current.d)
         ELSE IF key = "0" THEN Callable(current.f) ELSE Raised
    ELSE IF current.t = "agg"
    THEN IF key = "0" THEN Str(current.g)
         ELSE IF key = "1" THEN Str(current.a) ELSE Raised
    ELSE IF current.t = "str"
    THEN IF key \in {"0", "1"} THEN Char ELSE Raised
    ELSE IF current.t = "char"
    THEN IF key = "0" THEN Char ELSE Raised
    ELSE Raised

RECURSIVE Navigate(_, _, _)
Navigate(h, current, keys) ==
    IF current.t = "raise" \/ keys = << >> THEN current
    ELSE Navigate(h, Subscript(h, current, Head(keys)), Tail(keys))

\* the conversion is done whenever the flag is set
Converts_flagOnly(new_value, convert_callable) == convert_callable
\* line 194: convert_callable and new_value is None
Converts(new_value, convert_callable) == convert_callable /\ new_value = None

\* the call returns without assigning anything
update_by_path_noop(h, path, new_value, convert_callable) == [ok |-> TRUE, params |-> h]
\* Returns [ok, params]: ok is FALSE when the call raises.  Item
\* assignment works on a dict only: a tuple and a str are immutable.
update_by_path(h, path, new_value, convert_callable) ==
    IF path = << >> THEN [ok |-> FALSE, params |-> h]
    ELSE
    LET current == Navigate(h, Dict(Root), SubSeq(path, 1, Len(path) - 1))
        last == path[Len(path)]
        assigned(value) ==
            IF current.t = "dict"
            THEN [ok |-> TRUE,
                  params |-> [h EXCEPT ![current.d] = SetItem(@, last, value)]]
            ELSE [ok |-> FALSE, params |-> h]
    IN  IF current.t = "raise" THEN [ok |-> FALSE, params |-> h]
        ELSE IF Converts(new_value, convert_callable)
        THEN LET target_value == Subscript(h, current, last)
             IN  IF target_value.t = "raise" THEN [ok |-> FALSE, params |-> h]
                 ELSE IF target_value.t = "fn" THEN assigned(Str(target_value.f))
                 ELSE [ok |-> TRUE, params |-> h]
        ELSE assigned(new_value)

----------------------------------------------------------------------------
(* The container cd *)

InColumns(cols, name) == name \in Range(cols)
\* the new column takes the place of the last column of the dataset
AddColumn_overwrite(cols, name) ==
    IF cols = << >> THEN <<name>> ELSE [cols EXCEPT ![Len(cols)] = name]
AddColumn(cols, name) == IF InColumns(cols, name) THEN cols ELSE Append(cols, name)

\* DummyCapData.agg_group of the tests: the column is group_id + "_" + agg_func
DummyAggName(group_id, agg_func) == group_id \o "_" \o agg_func
\* CapData.agg_group: the column is "{group_id}_{agg_func}_agg"
CapDataAggName(group_id, agg_func) == group_id \o "_" \o agg_func \o "_agg"
agg_group(kind, group_id, agg_func) ==
    IF kind = "DummyCapData" THEN DummyAggName(group_id, agg_func)
    ELSE CapDataAggName(group_id, agg_func)

\* value in cd.column_groups and len(cd.column_groups[value]) == 1
\* a tuple is hashable and is no key of column_groups
IsSingleColumnGroup(cg, value) ==
    value.t = "str" /\ value.s \in DOMAIN cg /\ Len(cg[value.s]) = 1
SingleColumn(cg, value) ==
    IF IsSingleColumnGroup(cg, value) THEN Str(cg[value.s][1]) ELSE value

----------------------------------------------------------------------------
(* process_reg_cols: one activation record per call *)

DictFrame(d, path) ==
    [kind |-> "dict", obj |-> Dict(d), dict_path |-> path, i |-> 1, pc |-> "loop"]
TupleFrame(v, path) ==
    [kind |-> "tuple", obj |-> v, dict_path |-> path, i |-> 0, pc |-> "start"]

Top == stack[Len(stack)]
Popped == SubSeq(stack, 1, Len(stack) - 1)
WithTop(f) == [stack EXCEPT ![Len(stack)] = f]
\* the rewriting call returns without reprocessing the modified dict
Restart_none(stk) == stk
\* process_reg_cols(original_calc_params, cd=cd, agg_cache=agg_cache)
Restart(stk) == Append(stk, DictFrame(Root, << >>))

Running == phase = "running" /\ stack # << >>
InDict == Running /\ Top.kind = "dict"
InTuple == Running /\ Top.kind = "tuple"
CurItems == original_calc_params[Top.obj.d]
CurItem == CurItems[Top.i]

ghostVars == <<given, atCall>>
cdVars == <<column_groups, cdKind>>

\* the unhandled exception unwinds every active call
Raise(exc) ==
    /\ phase' = "raised"
    /\ stack' = << >>
    /\ exception' = exc

\* one more call of process_reg_cols fits under the recursion limit
CanCall == Len(stack) < RecursionLimit

\* only the first parameter value is tested
AllStr_first(items) == items = << >> \/ items[1].v.t = "str"
\* line 327
AllStr(items) == \A i \in DOMAIN items : items[i].v.t = "str"
\* lines 330-336
updated_params(items, cg) ==
    [i \in DOMAIN items |-> Item(items[i].k, SingleColumn(cg, items[i].v))]
\* the cache is never consulted
CacheHit_never(cache, cache_key) == FALSE
\* line 312
CacheHit(cache, cache_key) == cache_key \in DOMAIN cache
\* the dataset is never searched for the column
AggExists_never(cols, expected_agg_name) == FALSE
\* line 317
AggExists(cols, expected_agg_name) == InColumns(cols, expected_agg_name)

\* a caller invokes process_reg_cols(spec, cd=cd)
Call ==
    /\ UNCHANGED <<filterVars, utilVars>>
    /\ phase \in {"ready", "returned"}
    /\ passes < MaxPasses
    /\ phase' = "running"
    /\ passes' = passes + 1
    /\ stack' = <<DictFrame(Root, << >>)>>
    /\ agg_cache' = << >>
    /\ atCall' = [params |-> original_calc_params, columns |-> columns]
    /\ aggCalls' = << >>
    /\ fnCalls' = << >>
    /\ rewrites' = << >>
    /\ restarts' = 0
    /\ UNCHANGED <<original_calc_params, columns, cdVars, given, exception>>

\* lines 290-300: the item is a tuple, recurse into it
DictRecurse ==
    /\ UNCHANGED <<filterVars, utilVars>>
    /\ InDict /\ Top.i <= Len(CurItems)
    /\ IsTuple(CurItem.v)
    /\ IF CanCall
       THEN /\ stack' = Append(WithTop([Top EXCEPT !.i = @ + 1]),
                               TupleFrame(CurItem.v, Top.dict_path \o <<CurItem.k>>))
            /\ UNCHANGED <<phase, exception>>
       ELSE Raise("RecursionError")
    /\ UNCHANGED <<original_calc_params, columns, cdVars, agg_cache,
                   passes, ghostVars, aggCalls, fnCalls, rewrites, restarts>>

\* lines 301-306: the item names a group with a single column
DictSingleColumn ==
    /\ UNCHANGED <<filterVars, utilVars>>
    /\ InDict /\ Top.i <= Len(CurItems)
    /\ ~IsTuple(CurItem.v)
    /\ IsSingleColumnGroup(column_groups, CurItem.v)
    /\ LET dp_temp == Top.dict_path \o <<CurItem.k>>
           r == update_by_path(original_calc_params, dp_temp,
                               SingleColumn(column_groups, CurItem.v), FALSE)
       IN IF r.ok
          THEN /\ original_calc_params' = r.params
               /\ stack' = WithTop([Top EXCEPT !.i = @ + 1])
               /\ UNCHANGED <<phase, exception>>
          ELSE /\ Raise("TypeError")
               /\ UNCHANGED original_calc_params
    /\ UNCHANGED <<columns, cdVars, agg_cache, passes, ghostVars, aggCalls,
                   fnCalls, rewrites, restarts>>

\* lines 290-306: any other item is passed over
DictSkip ==
    /\ UNCHANGED <<filterVars, utilVars>>
    /\ InDict /\ Top.i <= Len(CurItems)
    /\ ~IsTuple(CurItem.v)
    /\ ~IsSingleColumnGroup(column_groups, CurItem.v)
    /\ stack' = WithTop([Top EXCEPT !.i = @ + 1])
    /\ UNCHANGED <<original_calc_params, columns, cdVars, agg_cache, phase,
                   passes, ghostVars, aggCalls, fnCalls, rewrites, exception,
                   restarts>>

\* the call returns: the for loop is exhausted, or the tuple branch is done
Return ==
    /\ UNCHANGED <<filterVars, utilVars>>
    /\ Running
    /\ \/ Top.kind = "dict" /\ Top.i > Len(CurItems)
       \/ Top.kind = "tuple" /\ Top.pc # "start"
    /\ stack' = Popped
    /\ phase' = IF Len(stack) = 1 THEN "returned" ELSE phase
    /\ UNCHANGED <<original_calc_params, columns, cdVars, agg_cache, passes,
                   ghostVars, aggCalls, fnCalls, rewrites, exception,
                   restarts>>

\* lines 309-325: an aggregation request
Aggregate ==
    /\ UNCHANGED <<filterVars, utilVars>>
    /\ InTuple /\ Top.pc = "start" /\ Top.obj.t = "agg"
    /\ LET cache_key == <<Top.obj.g, Top.obj.a>>
           hit == CacheHit(agg_cache, cache_key)
           expected_agg_name == Top.obj.g \o "_" \o Top.obj.a \o "_agg"
           exists == AggExists(columns, expected_agg_name)
           invoked == ~hit /\ ~exists
           agg_name == IF hit THEN agg_cache[cache_key]
                       ELSE IF exists THEN expected_agg_name
                       ELSE agg_group(cdKind, Top.obj.g, Top.obj.a)
           r == update_by_path(original_calc_params, Top.dict_path,
                               Str(agg_name), FALSE)
       IN /\ columns' = IF invoked THEN AddColumn(columns, agg_name) ELSE columns
          /\ aggCalls' = IF invoked THEN Append(aggCalls, cache_key) ELSE aggCalls
          /\ agg_cache' = IF hit THEN agg_cache
                          ELSE (cache_key :> agg_name) @@ agg_cache
          /\ IF r.ok
             THEN /\ original_calc_params' = r.params
                  /\ rewrites' = Append(rewrites,
                        [path |-> Top.dict_path, key |-> cache_key,
                         name |-> agg_name])
                  /\ IF CanCall
                     THEN /\ stack' = Restart(WithTop([Top EXCEPT !.pc = "restarted"]))
                          /\ restarts' = restarts + 1
                          /\ UNCHANGED <<phase, exception>>
                     ELSE /\ Raise("RecursionError")
                          /\ UNCHANGED restarts
             ELSE /\ Raise("TypeError")
                  /\ UNCHANGED <<original_calc_params, rewrites, restarts>>
    /\ UNCHANGED <<cdVars, passes, ghostVars, fnCalls>>

\* lines 326-350: a derivation request whose parameters are all strings
Derive ==
    /\ UNCHANGED <<filterVars, utilVars>>
    /\ InTuple /\ Top.pc = "start" /\ Top.obj.t = "fn"
    /\ AllStr(original_calc_params[Top.obj.d])
    /\ LET kwargs == updated_params(original_calc_params[Top.obj.d], column_groups)
           r == update_by_path(original_calc_params, Top.dict_path,
                               Str(Top.obj.f), FALSE)
       IN /\ fnCalls' = Append(fnCalls,
                [f |-> Top.obj.f, path |-> Top.dict_path, d |-> Top.obj.d,
                 kwargs |-> kwargs, before |-> columns])
          /\ columns' = AddColumn(columns, Top.obj.f)
          /\ IF r.ok
             THEN /\ original_calc_params' = r.params
                  /\ IF CanCall
                     THEN /\ stack' = Restart(WithTop([Top EXCEPT !.pc = "restarted"]))
                          /\ restarts' = restarts + 1
                          /\ UNCHANGED <<phase, exception>>
                     ELSE /\ Raise("RecursionError")
                          /\ UNCHANGED restarts
             ELSE /\ Raise("TypeError")
                  /\ UNCHANGED <<original_calc_params, restarts>>
    /\ UNCHANGED <<cdVars, agg_cache, passes, ghostVars, aggCalls, rewrites>>

\* lines 351-360: some parameter is still a tuple, recurse into the map
Descend ==
    /\ UNCHANGED <<filterVars, utilVars>>
    /\ InTuple /\ Top.pc = "start" /\ Top.obj.t = "fn"
    /\ ~AllStr(original_calc_params[Top.obj.d])
    /\ IF CanCall
       THEN /\ stack' = Append(WithTop([Top EXCEPT !.pc = "descended"]),
                               DictFrame(Top.obj.d, Top.dict_path \o <<"1">>))
            /\ UNCHANGED <<phase, exception>>
       ELSE Raise("RecursionError")
    /\ UNCHANGED <<original_calc_params, columns, cdVars, agg_cache,
                   passes, ghostVars, aggCalls, fnCalls, rewrites, restarts>>

----------------------------------------------------------------------------
(* Datasets.  A DataFrame is its column labels in order and its rows in    *)
(* index order; a row is its timestamp and its value under each label.     *)
(* None is the dataset with none = TRUE.  The index of every base dataset  *)
(* is sorted and free of duplicates, as the loader delivers it.            *)

Frame(cols, rows) == [none |-> FALSE, cols |-> cols, rows |-> rows]
NoneData == [none |-> TRUE, cols |-> << >>, rows |-> << >>]
Row(ts, v) == [ts |-> ts, v |-> v]

Count(cols, c) == Cardinality({i \in DOMAIN cols : cols[i] = c})

\* float('nan'), what min() and max() of an empty column give: every
\* comparison with it is False
NaN == -999999
\* the comparison leaves the bound itself out
Ge_strict(x, y) == x # NaN /\ y # NaN /\ x > y
Ge(x, y) == x # NaN /\ y # NaN /\ x >= y
Le(x, y) == x # NaN /\ y # NaN /\ x <= y

\* input is None or input.empty
IsEmptyInput_noneOnly(input) == input.none
IsEmptyInput(input) == input.none \/ Len(input.rows) = 0 \/ Len(input.cols) = 0

\* pd.DataFrame({self.poa_column: [], self.power_column: []})
EmptyFrame(poa_column, power_column) ==
    Frame(IF poa_column = power_column THEN <<poa_column>>
          ELSE <<poa_column, power_column>>, << >>)

\* the outcome of one _update_value call
Assigned(data) == [outcome |-> "set", data |-> data, exc |-> "none", warning |-> "none"]
Raises(exc) == [outcome |-> "raise", data |-> NoneData, exc |-> exc, warning |-> "none"]
Warned(msg) == [outcome |-> "return", data |-> NoneData, exc |-> "none", warning |-> msg]

\* the names bound at module level by the imports of filters.py
ModuleNames == {"dt", "pd", "np", "sk_cv", "hv", "pn", "param", "hvplot", "pvc"}

\* return warnings.warn(msg)
Warn(msg) == IF "warnings" \in ModuleNames THEN Warned(msg) ELSE Raises("NameError")

\* FilterIrradiance._update_value
IrradianceUpdate(node, input) ==
    IF IsEmptyInput(input)
    THEN Assigned(EmptyFrame(node.poa_column, node.power_column))
    ELSE IF Count(input.cols, node.poa_column) = 0 THEN Raises("KeyError")
    ELSE LET keep(r) == /\ Ge(r.v[node.poa_column], node.range[1])
                        /\ Le(r.v[node.poa_column], node.range[2])
         IN  Assigned(Frame(input.cols, SelectSeq(input.rows, keep)))

\* input.loc[start:end, :] on a sorted index: the rows from the first
\* position whose label is >= start to the last whose label is <= end
SliceLoc(rows, start, end) ==
    LET lo == Cardinality({i \in DOMAIN rows : rows[i].ts < start})
        hi == Cardinality({i \in DOMAIN rows : rows[i].ts <= end})
    IN  SubSeq(rows, lo + 1, hi)

RECURSIVE SortedSeq(_)
SortedSeq(S) ==
    IF S = {} THEN << >>
    ELSE LET m == CHOOSE x \in S : \A y \in S : x <= y
         IN  <<m>> \o SortedSeq(S \ {m})

\* input.index.difference(ix): the labels of input not in ix, sorted
IndexDifference(rows, ix) == SortedSeq({rows[i].ts : i \in DOMAIN rows} \ ix)

\* input.loc[labels, :]: for each label in turn, the rows that carry it
RECURSIVE LocLabels(_, _)
LocLabels(rows, labels) ==
    IF labels = << >> THEN << >>
    ELSE LET has(r) == r.ts = Head(labels)
         IN  SelectSeq(rows, has) \o LocLabels(rows, Tail(labels))

\* FilterTime._update_value
TimeUpdate(node, input) ==
    IF IsEmptyInput(input)
    THEN Assigned(EmptyFrame(node.poa_column, node.power_column))
    ELSE IF node.drop
    THEN LET inside == SliceLoc(input.rows, node.period[1], node.period[2])
             ix == {inside[i].ts : i \in DOMAIN inside}
         IN  Assigned(Frame(input.cols,
                            LocLabels(input.rows, IndexDifference(input.rows, ix))))
    ELSE Assigned(Frame(input.cols, SliceLoc(input.rows, node.period[1], node.period[2])))

\* sk_cv.EllipticEnvelope(...).fit(X1).predict(X1) == 1, an external
\* classifier: a deterministic stand-in that keeps a row when the distance
\* between its two designated values, weighted by the contamination, stays
\* within the support fraction (both in percent)
Inlier(r, node) ==
    LET x == r.v[node.poa_column]
        y == r.v[node.power_column]
        d == IF x >= y THEN x - y ELSE y - x
    IN  d * node.contamination <= node.support_fraction

\* FilterOutliers._update_value
OutliersUpdate(node, input) ==
    IF IsEmptyInput(input)
    THEN Assigned(EmptyFrame(node.poa_column, node.power_column))
    ELSE IF Count(input.cols, node.poa_column) = 0
            \/ Count(input.cols, node.power_column) = 0 THEN Raises("KeyError")
    ELSE IF Count(input.cols, node.poa_column) + Count(input.cols, node.power_column) > 2
    THEN Warn("Too many columns")
    ELSE LET keep(r) == Inlier(r, node)
         IN  Assigned(Frame(input.cols, SelectSeq(input.rows, keep)))

\* pvc.detect_clearsky(meas, model, index, window_length), an external
\* routine: a deterministic stand-in that calls a row clear when measured
\* and modelled irradiance agree within a tolerance that shrinks as the
\* window grows
ClearPer(r, node) ==
    LET x == r.v[node.ghi_col]
        y == r.v["ghi_mod_csky"]
        d == IF x >= y THEN x - y ELSE y - x
    IN  d * node.window_length <= 100

\* FilterClearSky._update_value
ClearSkyUpdate(node, input) ==
    IF IsEmptyInput(input)
    THEN Assigned(EmptyFrame(node.poa_column, node.power_column))
    ELSE IF Count(input.cols, node.ghi_col) = 0
            \/ Count(input.cols, "ghi_mod_csky") = 0 THEN Raises("KeyError")
    ELSE LET clear(r) == ClearPer(r, node)
             cloudy(r) == ~ClearPer(r, node)
         IN  IF ~\E i \in DOMAIN input.rows : clear(input.rows[i])
             THEN Warn("No clear periods detected")
             ELSE IF node.keep_clear
             THEN Assigned(Frame(input.cols, SelectSeq(input.rows, clear)))
             ELSE Assigned(Frame(input.cols, SelectSeq(input.rows, cloudy)))

_update_value(node, input) ==
    CASE node.type = "FilterIrradiance" -> IrradianceUpdate(node, input)
      [] node.type = "FilterTime" -> TimeUpdate(node, input)
      [] node.type = "FilterOutliers" -> OutliersUpdate(node, input)
      [] node.type = "FilterClearSky" -> ClearSkyUpdate(node, input)

\* the parameters named by each class's @param.depends(..., watch=True),
\* 'input.data' apart
Depends(type) ==
    CASE type = "FilterIrradiance" -> {"poa_column", "power_column", "range"}
      [] type = "FilterTime" -> {"period"}
      [] type = "FilterOutliers" -> {"contamination", "support_fraction"}
      [] type = "FilterClearSky" -> {"window_length", "ghi_col", "keep_clear"}

\* self.input.data
InputData(ns, base, k) == IF ns[k].input = 0 THEN base ELSE ns[ns[k].input].data

\* the result is assigned to the step's input node as well
SetData_andInput(ns, k, data) ==
    [j \in DOMAIN ns |->
        IF j = k \/ j = ns[k].input THEN [ns[j] EXCEPT !.data = data] ELSE ns[j]]
\* self.data = ...: the result is bound to the step's own data
SetData(ns, k, data) == [ns EXCEPT ![k].data = data]

\* _update_value of step k runs; when it assigns self.data, the watcher of
\* the step whose input is step k runs in turn
RECURSIVE Propagate(_, _, _, _)
Propagate(ns, base, k, log) ==
    IF k > Len(ns) THEN [steps |-> ns, exc |-> "none", ran |-> log, warnings |-> {}]
    ELSE LET input == InputData(ns, base, k)
             r == _update_value(ns[k], input)
             entry == [k |-> k, type |-> ns[k].type, outcome |-> r.outcome]
         IN  IF r.outcome = "raise"
             THEN [steps |-> ns, exc |-> r.exc, ran |-> Append(log, entry),
                   warnings |-> {}]
             ELSE IF r.outcome = "return"
             THEN [steps |-> ns, exc |-> "none", ran |-> Append(log, entry),
                   warnings |-> {r.warning}]
             ELSE Propagate(SetData(ns, k, r.data), base, k + 1,
                            Append(log, entry))

----------------------------------------------------------------------------
(* CapTest *)

FilterTypes == {"FilterIrradiance", "FilterTime", "FilterOutliers", "FilterClearSky"}

\* self.cd.poa_column, self.cd.power_column
PoaColumn == "poa"
PowerColumn == "power"

\* every step is bound to the base container
NewStep_unlinked(type, input) ==
    [type |-> type, input |-> 0, data |-> NoneData,
     poa_column |-> "", power_column |-> "",
     range |-> <<0, 1200>>,
     period |-> <<20191107, 20200122>>, drop |-> FALSE,
     contamination |-> 4, support_fraction |-> 90,
     window_length |-> 10, ghi_col |-> "", keep_clear |-> TRUE]
\* a step as its class declares it (the param defaults), bound to its input
NewStep(type, input) ==
    [type |-> type, input |-> input, data |-> NoneData,
     poa_column |-> "", power_column |-> "",
     range |-> <<0, 1200>>,
     period |-> <<20191107, 20200122>>, drop |-> FALSE,
     contamination |-> 4, support_fraction |-> 90,
     window_length |-> 10, ghi_col |-> "", keep_clear |-> TRUE]

MinOf(S) == CHOOSE x \in S : \A y \in S : x <= y
MaxOf(S) == CHOOSE x \in S : \A y \in S : x >= y

\* param.Range(bounds=(-10, 1400)): no end below or above the bounds
RangeInBounds(range) ==
    \A i \in {1, 2} : ~(Le(range[i], -11) \/ Ge(range[i], 1401))

\* the keyword arguments add_step passes to the step class, or the
\* exception raised while computing them
StepArgs(type, input_step, data) ==
    LET base == [NewStep(type, input_step) EXCEPT
                    !.poa_column = PoaColumn, !.power_column = PowerColumn]
    IN  CASE type = "FilterTime" ->
               IF data.none THEN [exc |-> "AttributeError", step |-> base]
               ELSE IF data.rows = << >> THEN [exc |-> "IndexError", step |-> base]
               ELSE [exc |-> "none",
                     step |-> [base EXCEPT !.period =
                                <<data.rows[1].ts, data.rows[Len(data.rows)].ts>>]]
          [] type = "FilterIrradiance" ->
               IF data.none THEN [exc |-> "TypeError", step |-> base]
               ELSE IF Count(data.cols, PoaColumn) = 0
               THEN [exc |-> "KeyError", step |-> base]
               ELSE LET vals == {data.rows[i].v[PoaColumn] : i \in DOMAIN data.rows}
                        range == IF vals = {} THEN <<NaN, NaN>>
                                 ELSE <<MinOf(vals), MaxOf(vals)>>
                    IN  IF RangeInBounds(range)
                        THEN [exc |-> "none", step |-> [base EXCEPT !.range = range]]
                        ELSE [exc |-> "ValueError", step |-> base]
          [] type = "FilterClearSky" ->
               [exc |-> "none", step |-> [base EXCEPT !.ghi_col = "irr-ghi-mean-agg"]]
          [] OTHER -> [exc |-> "none", step |-> base]

\* the cases of the chain that are modelled: a step class whose computation
\* subscripts a duplicated column label with a scalar is left out
Modelled(ns, data) ==
    \A k \in DOMAIN ns :
        ns[k].type = "FilterIrradiance" =>
            (data.none \/ Count(data.cols, ns[k].poa_column) <= 1)

\* CapTest.add_step with self.step the class `type`
add_step(type) ==
    /\ UNCHANGED <<resolverVars, utilVars>>
    /\ error = "none"
    /\ Len(steps) < MaxSteps
    /\ type = "FilterIrradiance" => (cd_data.none \/ Count(cd_data.cols, PoaColumn) <= 1)
    /\ LET input_step == Len(steps)
           args == StepArgs(type, input_step, cd_data)
           r == Propagate(Append(steps, args.step), cd_data, input_step + 1, << >>)
       IN  IF args.exc # "none"
           THEN /\ error' = args.exc
                /\ ran' = << >>
                /\ UNCHANGED <<steps, step_widgets, warned>>
           ELSE IF r.exc # "none"
           THEN /\ error' = r.exc
                /\ ran' = r.ran
                /\ UNCHANGED <<steps, step_widgets, warned>>
           ELSE /\ steps' = r.steps
                /\ step_widgets' = Append(step_widgets, type)
                /\ warned' = warned \cup r.warnings
                /\ ran' = r.ran
                /\ UNCHANGED error
    /\ UNCHANGED cd_data

\* CapTest.reset_instance_list
reset_instance_list ==
    /\ UNCHANGED <<resolverVars, utilVars>>
    /\ error = "none"
    /\ steps # << >>
    /\ steps' = << >>
    /\ step_widgets' = << >>
    /\ ran' = << >>
    /\ UNCHANGED <<cd_data, error, warned>>

\* the values a user gives each parameter
Values(name) ==
    CASE name = "range" -> {<<500, 800>>}
      [] name = "period" -> {<<2, 5>>}
      [] name = "drop" -> BOOLEAN
      [] name = "keep_clear" -> BOOLEAN
      [] name = "contamination" -> {4, 10}
      [] name = "support_fraction" -> {90}
      [] name = "window_length" -> {10, 2}
      [] name = "ghi_col" -> {"irr-ghi-mean-agg"}
      [] name = "poa_column" -> {"poa", "ghi"}
      [] name = "power_column" -> {"power"}

\* the parameters of each step class that a user changes
OwnParameters(type) ==
    CASE type = "FilterIrradiance" -> {"range", "poa_column"}
      [] type = "FilterTime" -> {"period", "drop"}
      [] type = "FilterOutliers" ->
            {"contamination", "support_fraction", "poa_column", "power_column"}
      [] type = "FilterClearSky" -> {"window_length", "ghi_col", "keep_clear"}

\* steps[k].<name> = value: param stores the value and calls the watchers
\* that depend on the parameter
set_param(k, name, value) ==
    /\ UNCHANGED <<resolverVars, utilVars>>
    /\ error = "none"
    /\ k \in DOMAIN steps
    /\ name \in OwnParameters(steps[k].type)
    /\ value \in Values(name)
    /\ value # steps[k][name]
    /\ LET ns == [steps EXCEPT ![k][name] = value]
           r == IF name \in Depends(steps[k].type)
                THEN Propagate(ns, cd_data, k, << >>)
                ELSE [steps |-> ns, exc |-> "none", ran |-> << >>, warnings |-> {}]
       IN  /\ Modelled(ns, cd_data)
           /\ steps' = r.steps
           /\ error' = r.exc
           /\ warned' = warned \cup r.warnings
           /\ ran' = r.ran
    /\ UNCHANGED <<cd_data, step_widgets>>

\* cd.data = data: the watchers of 'input.data' run down the chain
set_data(data) ==
    /\ UNCHANGED <<resolverVars, utilVars>>
    /\ error = "none"
    /\ Modelled(steps, data)
    /\ LET r == Propagate(steps, data, 1, << >>)
       IN  /\ cd_data' = data
           /\ steps' = r.steps
           /\ error' = r.exc
           /\ warned' = warned \cup r.warnings
           /\ ran' = r.ran
    /\ UNCHANGED step_widgets

----------------------------------------------------------------------------
(* The base datasets the chain is run on *)

Labels == {"poa", "power", "ghi", "irr-ghi-mean-agg", "ghi_mod_csky"}
Cols == <<"poa", "power", "ghi", "irr-ghi-mean-agg", "ghi_mod_csky">>
DupCols == <<"poa", "poa", "power", "ghi", "irr-ghi-mean-agg", "ghi_mod_csky">>

Vals(poa, power, ghi, csky) ==
    [c \in Labels |->
        CASE c = "poa" -> poa
          [] c = "power" -> power
          [] c = "ghi_mod_csky" -> csky
          [] OTHER -> ghi]

\* three intervals; the middle one is off the power line and off clear sky
RowsA == << Row(1, Vals(200, 200, 200, 200)),
            Row(2, Vals(500, 520, 480, 500)),
            Row(3, Vals(800, 800, 800, 800)) >>
\* two intervals, none of them near clear sky
RowsB == << Row(2, Vals(300, 300, 240, 300)),
            Row(3, Vals(600, 600, 540, 600)) >>

\* one interval of irradiance above the bounds of FilterIrradiance.range
RowsHigh == << Row(2, Vals(1500, 1500, 1500, 1500)) >>

BaseDatasets ==
    {NoneData, Frame(Cols, << >>), Frame(Cols, RowsA), Frame(Cols, RowsB),
     Frame(DupCols, RowsA)}

\* the datasets a container is created with: the high-irradiance one
\* holds the two designated columns only
LoadedDatasets == BaseDatasets \cup {Frame(<<"poa", "power">>, RowsHigh)}

\* no function of util.py is called on its own
NoUtilCall ==
    /\ op = "none"
    /\ call_args = << >>
    /\ result = << >>

NoFilterChain ==
    /\ cd_data = NoneData
    /\ steps = << >>
    /\ step_widgets = << >>
    /\ error = "none"
    /\ warned = {}
    /\ ran = << >>

----------------------------------------------------------------------------
(* The specifications and containers the resolver is run on.  A derived-   *)
(* value request is written [t |-> "der", f, m] with m its parameter map;  *)
(* Params lays the nested literal out as dict objects.                     *)

Der(f, m) == [t |-> "der", f |-> f, m |-> m]

RECURSIVE DictsOf(_, _)
DictsOf(items, path) ==
    LET child(i) == path \o <<items[i].k, "1">>
        flat(i) == IF items[i].v.t = "der"
                   THEN Item(items[i].k, Fn(items[i].v.f, child(i)))
                   ELSE items[i]
    IN  {<<path, [i \in DOMAIN items |-> flat(i)]>>}
        \cup UNION {DictsOf(items[i].v.m, child(i)) :
                        i \in {j \in DOMAIN items : items[j].v.t = "der"}}

Params(items) ==
    LET S == DictsOf(items, Root)
    IN  [d \in {p[1] : p \in S} |-> (CHOOSE p \in S : p[1] = d)[2]]

\* nested_calc_dict of tests/test_util.py
FixtureGroups ==
    [g \in {"real_pwr_mtr", "irr_poa", "temp_amb", "wind_speed", "irr_rpoa"} |->
        CASE g = "real_pwr_mtr" -> <<"metered_power_kw">>
          [] g = "irr_poa" -> <<"pyran1", "pyran2">>
          [] g = "temp_amb" -> <<"temp_amb1", "temp_amb2">>
          [] g = "wind_speed" -> <<"wind_speed1", "wind_speed2">>
          [] g = "irr_rpoa" -> <<"irr_rpoa1", "irr_rpoa2">>]

FixtureSpec ==
    << Item("power_tc", Der("test_func1", <<
            Item("power", Str("real_pwr_mtr")),
            Item("cell_temp", Der("test_func2", <<
                Item("poa", Agg("irr_poa", "mean")),
                Item("bom", Der("test_func3", <<
                    Item("poa", Agg("irr_poa", "mean")),
                    Item("temp_amb", Agg("temp_amb", "mean")),
                    Item("wind_speed", Agg("wind_speed", "mean")) >>)) >>)) >>)),
       Item("irr_total", Der("test_func4", <<
            Item("poa", Agg("irr_poa", "mean")),
            Item("rpoa", Agg("irr_rpoa", "mean")) >>)) >>

FixtureInput == [cg |-> FixtureGroups, spec |-> FixtureSpec, columns |-> << >>]

\* nested_calc_dict with the two keys of the parameter map of test_func1
\* written in the other order
SwappedSpec ==
    << Item("power_tc", Der("test_func1", <<
            Item("cell_temp", FixtureSpec[1].v.m[2].v),
            Item("power", Str("real_pwr_mtr")) >>)),
       FixtureSpec[2] >>

SwappedInput == [cg |-> FixtureGroups, spec |-> SwappedSpec, columns |-> << >>]

\* the bom_temp_fn scenario over capdata_spatial-like groups
ScenarioGroups ==
    [g \in {"irr_poa", "temp_amb"} |->
        IF g = "irr_poa" THEN <<"poa1", "poa2", "poa3">> ELSE <<"t1", "t2", "t3">>]

ScenarioSpec ==
    << Item("bom", Der("bom_temp_fn", <<
            Item("poa", Agg("irr_poa", "mean")),
            Item("temp_amb", Agg("temp_amb", "mean")) >>)) >>

ScenarioColumns == <<"poa1", "poa2", "poa3", "t1", "t2", "t3">>

ScenarioInput == [cg |-> ScenarioGroups, spec |-> ScenarioSpec, columns |-> ScenarioColumns]

\* a family of small specifications over one mapping: "one" has a single
\* column, "multi" has two, and the single column of "chain" carries the
\* name of the group "one"
SmallGroups ==
    [g \in {"one", "multi", "chain"} |->
        CASE g = "one" -> <<"c1">>
          [] g = "multi" -> <<"m1", "m2">>
          [] g = "chain" -> <<"one">>]

SmallColumns == <<"c1", "m1", "m2", "one">>

Leaves == {Str("one"), Str("multi"), Str("chain"),
           Agg("multi", "mean"), Agg("multi", "sum")}

Maps(first, second) ==
    {<<Item("p", v)>> : v \in first}
    \cup {<<Item("p", v), Item("q", w)>> : v \in first, w \in second}

Inner == {Der("f2", m) : m \in Maps(Leaves, Leaves)}
Outer == {Der("f1", m) : m \in Maps(Leaves, Leaves \cup Inner) \cup Maps(Inner, Leaves)}

SmallSpecs ==
    {<<Item("k1", v)>> : v \in Leaves \cup Inner \cup Outer}
    \cup {<<Item("k1", v), Item("k2", w)>> : v \in Leaves \cup Inner, w \in Leaves}
    \cup {<<Item("k1", v), Item("k2", w)>> : v \in Leaves, w \in Inner}

\* specifications with a string that is no key of SmallGroups
UnknownSpecs ==
    { <<Item("k1", Str("nogroup"))>>,
      <<Item("k1", Der("f2", <<Item("p", Str("nogroup"))>>))>>,
      <<Item("k1", Der("f1", <<Item("p", Str("nogroup")),
                                Item("q", Agg("multi", "mean"))>>))>> }

\* specifications run on a dataset that already holds the aggregate
\* column of ("multi", "mean")
ExistingColumns == SmallColumns \o <<"multi_mean_agg">>
ExistingSpecs ==
    { <<Item("k1", Agg("multi", "mean"))>>,
      <<Item("k1", Agg("multi", "mean")), Item("k2", Agg("multi", "mean"))>>,
      <<Item("k1", Agg("multi", "sum")), Item("k2", Agg("multi", "mean"))>>,
      <<Item("k1", Der("f2", <<Item("p", Agg("multi", "mean")),
                                Item("q", Agg("multi", "sum"))>>))>> }

\* specifications that request one function for two nodes
SameFunctionSpecs ==
    { <<Item("k1", Der("f2", <<Item("p", Agg("multi", "mean"))>>)),
        Item("k2", Der("f2", <<Item("p", Agg("multi", "sum"))>>))>>,
      <<Item("k1", Der("f2", <<Item("p", Agg("multi", "mean"))>>)),
        Item("k2", Der("f2", <<Item("p", Agg("multi", "mean"))>>))>> }

Inputs ==
    {FixtureInput, SwappedInput, ScenarioInput}
    \cup {[cg |-> SmallGroups, spec |-> s, columns |-> SmallColumns] :
              s \in SmallSpecs \cup UnknownSpecs \cup SameFunctionSpecs}
    \cup {[cg |-> SmallGroups, spec |-> s, columns |-> ExistingColumns] :
              s \in ExistingSpecs}

CdKinds == {"CapData", "DummyCapData"}

\* specifications that refer to themselves, built as a caller builds them
\* by assigning into a dict after it was created:
\*   spec = {}; spec['k1'] = (f1, spec)
CyclicSelf == Root :> <<Item("k1", Fn("f1", Root))>>
\*   m = {'p': 'one'}; m['q'] = (f2, m); spec = {'k1': (f1, m)}
CyclicMap ==
    (Root :> <<Item("k1", Fn("f1", <<"k1", "1">>))>>)
    @@ (<<"k1", "1">> :> <<Item("p", Str("one")), Item("q", Fn("f2", <<"k1", "1">>))>>)
\*   m = {'p': ('multi', 'mean')}; m['q'] = (f1, m)
\*   spec = {'k1': (f2, {'p': 'one'}), 'k2': (f1, m)}
CyclicAfterWork ==
    (Root :> <<Item("k1", Fn("f2", <<"k1", "1">>)), Item("k2", Fn("f1", <<"k2", "1">>))>>)
    @@ (<<"k1", "1">> :> <<Item("p", Str("one"))>>)
    @@ (<<"k2", "1">> :> <<Item("p", Agg("multi", "mean")),
                           Item("q", Fn("f1", <<"k2", "1">>))>>)

CyclicParams == {CyclicSelf, CyclicMap, CyclicAfterWork}

\* the state before the first call process_reg_cols(params, cd=cd)
Start(params, cg, cols, kind) ==
    /\ original_calc_params = params
    /\ given = params
    /\ column_groups = cg
    /\ columns = cols
    /\ cdKind = kind
    /\ stack = << >>
    /\ agg_cache = << >>
    /\ phase = "ready"
    /\ passes = 0
    /\ atCall = [params |-> params, columns |-> cols]
    /\ aggCalls = << >>
    /\ fnCalls = << >>
    /\ rewrites = << >>
    /\ exception = "none"
    /\ restarts = 0
    /\ NoFilterChain
    /\ NoUtilCall

Init ==
    \/ \E in \in Inputs, kind \in CdKinds :
          Start(Params(in.spec), in.cg, in.columns, kind)
    \/ \E params \in CyclicParams, kind \in CdKinds :
          Start(params, SmallGroups, SmallColumns, kind)

NoResolver ==
    /\ original_calc_params = Params(<< >>)
    /\ given = Params(<< >>)
    /\ column_groups = << >>
    /\ columns = << >>
    /\ cdKind = "CapData"
    /\ stack = << >>
    /\ agg_cache = << >>
    /\ phase = "unused"
    /\ passes = 0
    /\ atCall = [params |-> Params(<< >>), columns |-> << >>]
    /\ aggCalls = << >>
    /\ fnCalls = << >>
    /\ rewrites = << >>
    /\ exception = "none"
    /\ restarts = 0

FilterInit ==
    /\ cd_data \in LoadedDatasets
    /\ steps = << >>
    /\ step_widgets = << >>
    /\ error = "none"
    /\ warned = {}
    /\ ran = << >>
    /\ NoResolver
    /\ NoUtilCall

Next ==
    \/ Call
    \/ DictRecurse
    \/ DictSingleColumn
    \/ DictSkip
    \/ Return
    \/ Aggregate
    \/ Derive
    \/ Descend

Spec == Init /\ [][Next]_vars

\* the steps of the interpreter inside a call; a running Python call is
\* never suspended for ever
Run ==
    \/ DictRecurse
    \/ DictSingleColumn
    \/ DictSkip
    \/ Return
    \/ Aggregate
    \/ Derive
    \/ Descend

SpecRun == Init /\ [][Next]_vars /\ WF_vars(Run)

FilterNext ==
    \/ \E type \in FilterTypes : add_step(type)
    \/ reset_instance_list
    \/ \E k \in DOMAIN steps :
          \E name \in OwnParameters(steps[k].type) :
              \E value \in Values(name) : set_param(k, name, value)
    \/ \E data \in BaseDatasets : set_data(data)

SpecFilters == FilterInit /\ [][FilterNext]_vars

----------------------------------------------------------------------------
(* Claims about process_reg_cols *)

TopItems == original_calc_params[Root]
Returned == phase = "returned"
FirstPassReturned == phase = "returned" /\ passes = 1

\* C1 (as claimed): on every acyclic specification over known groups one
\* call of process_reg_cols raises nothing and leaves only strings as the
\* top-level values of the specification.
C1_ResolvesEverySpec ==
    /\ phase # "raised"
    /\ Returned => AllStr(TopItems)

IsScenario == given = Params(ScenarioSpec) /\ column_groups = ScenarioGroups
ScenarioDone == IsScenario /\ cdKind = "CapData" /\ FirstPassReturned

C3_SecondPassNoOp ==
    (passes = 2 /\ phase \in {"returned", "raised"}) =>
        /\ phase = "returned"
        /\ aggCalls = << >>
        /\ fnCalls = << >>
        /\ columns = atCall.columns
        /\ original_calc_params = atCall.params

\* C4: within one pass cd.agg_group is invoked at most once for each pair
\* (group_id, agg_func), and every node that requests the pair is rewritten
\* to one and the same column name, the one the invocation returned.
C4_AggregationCaching ==
    /\ \A i, j \in DOMAIN aggCalls : aggCalls[i] = aggCalls[j] => i = j
    /\ \A i, j \in DOMAIN rewrites :
          rewrites[i].key = rewrites[j].key => rewrites[i].name = rewrites[j].name
    /\ \A i \in DOMAIN rewrites :
          rewrites[i].key \in Range(aggCalls) =>
              rewrites[i].name = agg_group(cdKind, rewrites[i].key[1], rewrites[i].key[2])

C4_Witness ==
    \E i, j \in DOMAIN rewrites :
        /\ i # j
        /\ rewrites[i].key = rewrites[j].key
        /\ rewrites[i].key \in Range(aggCalls)

\* what the claim expects a parameter value of the written specification to
\* be passed as
ExpectedArg(v) ==
    IF v.t = "agg"
    THEN IF <<v.g, v.a>> \in DOMAIN agg_cache
         THEN Str(agg_cache[<<v.g, v.a>>]) ELSE v
    ELSE IF v.t = "fn" THEN Str(v.f)
    ELSE SingleColumn(column_groups, v)

\* C5 (as claimed): the keyword arguments of every derivation call are the
\* node's parameter map with each nested aggregation replaced by its
\* column, each nested derivation by its function's name, each string that
\* names a single-column group by that group's only column, and every other
\* string unchanged.
C5_KeywordArguments ==
    \A n \in DOMAIN fnCalls :
        fnCalls[n].kwargs =
            [i \in DOMAIN given[fnCalls[n].d] |->
                Item(given[fnCalls[n].d][i].k, ExpectedArg(given[fnCalls[n].d][i].v))]

\* the tuples nested at any depth in the parameter map d of the written
\* specification
RECURSIVE NestedTuples(_)
NestedTuples(d) ==
    UNION {{given[d][i].v} \cup
            (IF given[d][i].v.t = "fn" THEN NestedTuples(given[d][i].v.d) ELSE {}) :
           i \in {j \in DOMAIN given[d] : IsTuple(given[d][j].v)}}

Materialized(v, cols) ==
    IF v.t = "agg"
    THEN <<v.g, v.a>> \in DOMAIN agg_cache /\ InColumns(cols, agg_cache[<<v.g, v.a>>])
    ELSE InColumns(cols, v.f)

IsFixture == given = Params(FixtureSpec) /\ column_groups = FixtureGroups
FixtureDone == IsFixture /\ FirstPassReturned

\* C6: a derivation function is invoked only when every aggregation and
\* derivation nested in its parameter map is already a column of the
\* dataset; top-level entries are resolved in key order; for the test
\* fixture the columns are created in the order irr_poa mean, temp_amb
\* mean, wind_speed mean, test_func3, test_func2, test_func1, irr_rpoa
\* mean, test_func4.
C6_BottomUp ==
    /\ \A n \in DOMAIN fnCalls :
          \A v \in NestedTuples(fnCalls[n].d) : Materialized(v, fnCalls[n].before)
    /\ \A m, n \in DOMAIN fnCalls :
          \A i, j \in DOMAIN given[Root] :
              (/\ i < j
               /\ fnCalls[m].path = <<given[Root][i].k>>
               /\ fnCalls[n].path = <<given[Root][j].k>>) => m < n
    /\ FixtureDone =>
          columns = << agg_group(cdKind, "irr_poa", "mean"),
                       agg_group(cdKind, "temp_amb", "mean"),
                       agg_group(cdKind, "wind_speed", "mean"),
                       "test_func3", "test_func2", "test_func1",
                       agg_group(cdKind, "irr_rpoa", "mean"),
                       "test_func4" >>

C6_Witness == FixtureDone /\ Len(fnCalls) = 4

----------------------------------------------------------------------------
(* Claims about the filter chain *)

Upstream(k) == InputData(steps, cd_data, k)

\* the dataset is None or has zero rows
NoRows(d) == d.none \/ d.rows = << >>

\* C7 (as claimed): whatever parameters of a step and whatever upstream
\* data were changed, each step's data is its filter function applied to
\* the upstream's current data and the step's current parameters.
C7_OutputIsFunctionOfInputs ==
    error = "none" =>
        \A k \in DOMAIN steps :
            LET r == _update_value(steps[k], Upstream(k))
            IN  r.outcome = "set" => steps[k].data = r.data

InPeriod(r, period) == period[1] <= r.ts /\ r.ts <= period[2]

\* the upstream rows inside, and outside, the inclusive period of step k
RowsInside(k) ==
    LET in(r) == InPeriod(r, steps[k].period) IN SelectSeq(Upstream(k).rows, in)
RowsOutside(k) ==
    LET out(r) == ~InPeriod(r, steps[k].period) IN SelectSeq(Upstream(k).rows, out)

\* C8 (as claimed): over a non-empty upstream a FilterTime step with
\* drop=False holds exactly the upstream rows inside [start, end] and with
\* drop=True exactly the rows outside; the two row sets are disjoint and
\* together give every upstream row once.
C8_TimeFilter ==
    error = "none" =>
        \A k \in DOMAIN steps :
            (steps[k].type = "FilterTime" /\ ~NoRows(Upstream(k))) =>
                /\ steps[k].data.rows =
                       IF steps[k].drop THEN RowsOutside(k) ELSE RowsInside(k)
                /\ Range(RowsInside(k)) \cap Range(RowsOutside(k)) = {}
                /\ Range(RowsInside(k)) \cup Range(RowsOutside(k))
                       = Range(Upstream(k).rows)
                /\ Len(RowsInside(k)) + Len(RowsOutside(k)) = Len(Upstream(k).rows)

\* C9: whenever _update_value of any of the four step classes runs on an
\* upstream that is None or has no rows, at construction or later, it
\* raises nothing and leaves the step with a dataset of zero rows whose
\* columns are exactly poa_column and power_column.
C9_EmptyUpstream ==
    \A i \in DOMAIN ran :
        LET k == ran[i].k
        IN  (k \in DOMAIN steps /\ NoRows(Upstream(k))) =>
                /\ ran[i].outcome = "set"
                /\ ~steps[k].data.none
                /\ steps[k].data.rows = << >>
                /\ Range(steps[k].data.cols)
                       = {steps[k].poa_column, steps[k].power_column}

C9_NotRaisedOnEmpty ==
    \A i \in DOMAIN ran :
        ran[i].outcome = "raise" =>
            LET input == IF ran[i].k = 1 THEN cd_data ELSE steps[ran[i].k - 1].data
            IN  ~NoRows(input)

C9_EmptyUpstreamNoError == C9_EmptyUpstream /\ C9_NotRaisedOnEmpty

C9_Witness ==
    /\ error = "none"
    /\ Len(ran) = 2
    /\ cd_data.none
    /\ ~Upstream(2).none /\ Upstream(2).rows = << >>
    /\ {steps[1].type, steps[2].type} \cap {"FilterClearSky", "FilterOutliers"} # {}

\* C10 (as claimed): when the two designated columns select more than two
\* columns of the upstream dataset, recomputing a FilterOutliers step
\* raises nothing, emits a warning and leaves the step's data equal to the
\* upstream's current data.
C10_TooManyColumns ==
    \A i \in DOMAIN ran :
        LET k == ran[i].k
            input == IF k = 1 THEN cd_data ELSE steps[k - 1].data
        IN  (/\ ran[i].type = "FilterOutliers"
             /\ ~NoRows(input)
             /\ Count(input.cols, PoaColumn) + Count(input.cols, PowerColumn) > 2) =>
                /\ ran[i].outcome # "raise"
                /\ "Too many columns" \in warned
                /\ k \in DOMAIN steps /\ steps[k].data = input

\* the clear-sky detection flags no row of the dataset as clear
NoClearRow(node, input) ==
    \A j \in DOMAIN input.rows : ~ClearPer(input.rows[j], node)

\* C11 (as claimed): when the detection flags no row of a non-empty
\* upstream as clear, recomputing a FilterClearSky step raises nothing,
\* emits a warning and leaves the step's data equal to the upstream's
\* current data.
C11_NoClearInterval ==
    \A i \in DOMAIN ran :
        LET k == ran[i].k
            input == IF k = 1 THEN cd_data ELSE steps[k - 1].data
            node == IF k \in DOMAIN steps THEN steps[k]
                    ELSE [NewStep("FilterClearSky", k - 1) EXCEPT
                             !.ghi_col = "irr-ghi-mean-agg"]
        IN  (/\ ran[i].type = "FilterClearSky"
             /\ ~NoRows(input)
             /\ Count(input.cols, node.ghi_col) = 1
             /\ NoClearRow(node, input)) =>
                /\ ran[i].outcome # "raise"
                /\ "No clear periods detected" \in warned
                /\ k \in DOMAIN steps /\ steps[k].data = input

\* C12 (as claimed): after any sequence of add_step calls, parameter
\* changes and base-data changes, every step's data has at most as many
\* rows as its upstream's current data.
C12_RowCountsNonIncreasing ==
    \A k \in DOMAIN steps :
        Len(steps[k].data.rows) <= Len(Upstream(k).rows)

\* the timestamps of a dataset, in row order
Index(d) == [i \in DOMAIN d.rows |-> d.rows[i].ts]

\* s is t with some elements left out, the others in t's order
RECURSIVE IsSubsequence(_, _)
IsSubsequence(s, t) ==
    IF s = << >> THEN TRUE
    ELSE IF t = << >> THEN FALSE
    ELSE IF Head(s) = Head(t) THEN IsSubsequence(Tail(s), Tail(t))
    ELSE IsSubsequence(s, Tail(t))

\* C13 (as claimed): for every step of a chain on a base container with a
\* dataset, after any sequence of parameter and data changes, the step's
\* timestamps are timestamps of cd.data in the same relative order and
\* the step's columns are columns of cd.data.
C13_DatasetView ==
    ~cd_data.none =>
        \A k \in DOMAIN steps :
            /\ IsSubsequence(Index(steps[k].data), Index(cd_data))
            /\ Range(steps[k].data.cols) \subseteq Range(cd_data.cols)

\* low <= v <= high as numbers; no number compares with nan
InRange(v, range) ==
    /\ range[1] # NaN /\ range[2] # NaN
    /\ range[1] <= v /\ v <= range[2]

RowsInRange(k) ==
    LET in(r) == InRange(r.v[steps[k].poa_column], steps[k].range)
    IN  SelectSeq(Upstream(k).rows, in)

----------------------------------------------------------------------------
(* Claims about malformed specifications *)

IsCyclic == given \in CyclicParams

\* C15 (as claimed): on a specification that refers to itself
\* process_reg_cols ends the pass with a dedicated cyclic-specification
\* error, not by running into the recursion limit, and invokes no
\* derivation function of the cyclic path.
C15_CycleDetected ==
    IsCyclic =>
        /\ phase # "returned"
        /\ phase = "raised" => exception = "CyclicSpecificationError"
        /\ \A n \in DOMAIN fnCalls : fnCalls[n].f # "f1"

NamesUnknownGroup == \E sp \in UnknownSpecs : given = Params(sp)

\* C16 (as claimed): when a string of the specification names a group
\* that cd.column_groups does not hold, the pass ends with an
\* unknown-group error; the name is neither passed to a derivation
\* function nor left in the resolved specification.
C16_UnknownGroup ==
    NamesUnknownGroup =>
        /\ phase # "returned"
        /\ phase = "raised" => exception = "UnknownGroupError"
        /\ \A n \in DOMAIN fnCalls :
              \A i \in DOMAIN fnCalls[n].kwargs :
                  fnCalls[n].kwargs[i].v # Str("nogroup")

----------------------------------------------------------------------------
(* update_by_path called on its own *)

\* the paths that reach an entry of a dict of h
EntryPaths(h) ==
    UNION {{d \o <<h[d][i].k>> : i \in DOMAIN h[d]} : d \in DOMAIN h}

\* paths that reach no entry of a dict: a key the root dict does not
\* hold, and element 1 of what an entry holds (a tuple or a str)
OtherPaths(h) == {<<"absent">>} \cup {q \o <<"1">> : q \in EntryPaths(h)}

NewValues == {None, Str("temp_bom")}

UpdateInit ==
    /\ op = "update_by_path"
    /\ \E h \in {Params(FixtureSpec), Params(ScenarioSpec)} :
       \E path \in EntryPaths(h) \cup OtherPaths(h) :
       \E new_value \in NewValues, convert_callable \in BOOLEAN :
          call_args = [dictionary |-> h, path |-> path, new_value |-> new_value,
                       convert_callable |-> convert_callable]
    /\ result = << >>
    /\ NoResolver
    /\ NoFilterChain

\* update_by_path(dictionary, path, new_value, convert_callable): the dict
\* object after the call, and the object the call returned
UpdateByPathCall ==
    /\ op = "update_by_path" /\ result = << >>
    /\ LET r == update_by_path(call_args.dictionary, call_args.path,
                               call_args.new_value, call_args.convert_callable)
       IN  result' = [raised |-> ~r.ok, dictionary |-> r.params,
                      returned |-> IF r.ok THEN Dict(Root) ELSE None]
    /\ UNCHANGED <<op, call_args, resolverVars, filterVars>>

UpdateNext == UpdateByPathCall

SpecUpdate == UpdateInit /\ [][UpdateNext]_vars

\* C17: for a path that reaches an entry of a dict, update_by_path raises
\* nothing, returns the dict object it was given and changes at most that
\* entry: the entry becomes new_value when one is given, with or without
\* convert_callable; with no new_value and convert_callable set, a tuple
\* whose first element is callable becomes the callable's name and any
\* other entry stays as it is.
C17_UpdateByPath ==
    (op = "update_by_path" /\ result # << >>
        /\ call_args.path \in EntryPaths(call_args.dictionary)) =>
        LET before == call_args.dictionary
            after == result.dictionary
            path == call_args.path
            d == SubSeq(path, 1, Len(path) - 1)
            key == path[Len(path)]
            old == GetItem(before[d], key)
            new == IF call_args.new_value # None THEN call_args.new_value
                   ELSE IF ~call_args.convert_callable THEN None
                   ELSE IF old.t = "fn" THEN Str(old.f)
                   ELSE old
        IN  /\ ~result.raised
            /\ result.returned = Dict(Root)
            /\ DOMAIN after = DOMAIN before
            /\ \A e \in DOMAIN before : e # d => after[e] = before[e]
            /\ DOMAIN after[d] = DOMAIN before[d]
            /\ \A i \in DOMAIN before[d] :
                  after[d][i] = IF before[d][i].k = key THEN Item(key, new)
                                ELSE before[d][i]

\* the call of the test: a new value given together with convert_callable
\* for an entry that holds a (callable, dict) tuple
C17_Witness ==
    /\ op = "update_by_path" /\ result # << >>
    /\ call_args.path = <<"power_tc", "1", "cell_temp", "1", "bom">>
    /\ call_args.new_value = Str("temp_bom") /\ call_args.convert_callable
    /\ GetItem(result.dictionary[<<"power_tc", "1", "cell_temp", "1">>], "bom")
           = Str("temp_bom")

----------------------------------------------------------------------------
(* get_common_timestep and reindex_datetime called on their own.  A frame *)
(* is its rows in order; a row is its timestamp in minutes and the value  *)
(* of its column a, which here numbers the rows of the input.             *)

MaxRows == 4
Times == {0, 5, 10, 20, 25}

\* data.index.to_series().diff(), the leading NaT left out
Diffs(rows) == [i \in 1 .. (Len(rows) - 1) |-> rows[i + 1].ts - rows[i].ts]

Occurrences(seq, x) == Cardinality({i \in DOMAIN seq : seq[i] = x})

\* .mode().values[0]: the most frequent value, the smallest of them on a tie
Mode(seq) ==
    LET most == {x \in Range(seq) :
                    \A y \in Range(seq) : Occurrences(seq, y) <= Occurrences(seq, x)}
    IN  MinOf(most)

\* get_common_timestep(data, string_output=True), as a number of minutes;
\* with fewer than two rows .values[0] raises IndexError
get_common_timestep(rows) ==
    IF Len(rows) < 2 THEN [exc |-> "IndexError", freq |-> 0]
    ELSE [exc |-> "none", freq |-> Mode(Diffs(rows))]

Monotonic(rows) == \A i \in 1 .. (Len(rows) - 1) : rows[i].ts <= rows[i + 1].ts

\* df.sort_index(): a monotonic index is left as it is; otherwise the
\* rows are put in index order, and the default sort promises no order
\* among rows of equal timestamp
SortedRows(rows) ==
    IF Monotonic(rows) THEN {rows}
    ELSE LET n == Len(rows)
             perms == {f \in [1 .. n -> 1 .. n] : \A i, j \in 1 .. n : i # j => f[i] # f[j]}
         IN  {sorted \in {[i \in 1 .. n |-> rows[f[i]]] : f \in perms} : Monotonic(sorted)}

\* pd.date_range(start=start, end=end, freq=freq) for start <= end: a
\* negative step from start reaches end only when start = end
date_range(start, end, freq) ==
    IF freq > 0
    THEN [k \in 1 .. ((end - start) \div freq + 1) |-> start + (k - 1) * freq]
    ELSE IF start = end THEN <<start>> ELSE << >>

\* df.index.duplicated(): every row but the first of its timestamp
Duplicated(rows, i) == \E j \in 1 .. (i - 1) : rows[j].ts = rows[i].ts
HasDuplicates(rows) == \E i \in DOMAIN rows : Duplicated(rows, i)

RECURSIVE DropDuplicated(_, _)
DropDuplicated(rows, i) ==
    IF i > Len(rows) THEN << >>
    ELSE (IF Duplicated(rows, i) THEN << >> ELSE <<rows[i]>>)
         \o DropDuplicated(rows, i + 1)

\* df.reindex(index=full_ix) on a duplicate-free index: the row of each
\* timestamp, a row of NaN where there is none
Reindex(rows, full_ix) ==
    [k \in DOMAIN full_ix |->
        IF \E i \in DOMAIN rows : rows[i].ts = full_ix[k]
        THEN rows[CHOOSE i \in DOMAIN rows : rows[i].ts = full_ix[k]]
        ELSE [ts |-> full_ix[k], a |-> NaN]]

\* the outcomes of reindex_datetime(data): which timestep string a zero
\* step gives an exception for is pandas' business, as is the order a
\* sort leaves equal timestamps in
reindex_datetime(data) ==
    LET step == get_common_timestep(data)
    IN  IF data = << >>
        THEN {[exc |-> "IndexError", df |-> << >>, freq |-> 0, warned |-> FALSE]}
        ELSE IF step.exc # "none"
        THEN {[exc |-> step.exc, df |-> << >>, freq |-> 0, warned |-> FALSE]}
        ELSE IF step.freq = 0
        THEN {[exc |-> e, df |-> << >>, freq |-> 0, warned |-> FALSE] :
                 e \in {"ValueError", "ZeroDivisionError"}}
        ELSE {LET full_ix == date_range(df[1].ts, df[Len(df)].ts, step.freq)
                  unique == IF HasDuplicates(df) THEN DropDuplicated(df, 1) ELSE df
              IN  [exc |-> "none", df |-> Reindex(unique, full_ix),
                   freq |-> step.freq, warned |-> HasDuplicates(df)] :
              df \in SortedRows(data)}

ReindexInputs ==
    UNION {{[i \in 1 .. n |-> [ts |-> f[i], a |-> i]] : f \in [1 .. n -> Times]} :
           n \in 1 .. MaxRows}

ReindexInit ==
    /\ op = "reindex_datetime"
    /\ \E data \in ReindexInputs : call_args = [data |-> data]
    /\ result = << >>
    /\ NoResolver
    /\ NoFilterChain

ReindexCall ==
    /\ op = "reindex_datetime" /\ result = << >>
    /\ result' \in reindex_datetime(call_args.data)
    /\ UNCHANGED <<op, call_args, resolverVars, filterVars>>

ReindexNext == ReindexCall

SpecReindex == ReindexInit /\ [][ReindexNext]_vars

\* the timestamps of the input in ascending order, each once
InputTimes == SortedSeq({call_args.data[i].ts : i \in DOMAIN call_args.data})

\* C18 (as claimed): whatever the order of the input rows, reindex_datetime
\* returns a frame whose index has no duplicate and runs from the earliest
\* to the latest input timestamp at the most common timestep of the input;
\* of rows with the same timestamp it keeps the first and warns.
C18_ReindexDatetime ==
    (op = "reindex_datetime" /\ result # << >> /\ Len(InputTimes) >= 2) =>
        LET data == call_args.data
            step == Mode(Diffs([i \in DOMAIN InputTimes |-> [ts |-> InputTimes[i]]]))
            first == InputTimes[1]
            last == InputTimes[Len(InputTimes)]
        IN  /\ result.exc = "none"
            /\ Index([rows |-> result.df]) =
                   [k \in 1 .. ((last - first) \div step + 1) |-> first + (k - 1) * step]
            /\ result.warned = HasDuplicates(data)
            /\ \A k \in DOMAIN result.df :
                  \A i \in DOMAIN data :
                      (data[i].ts = result.df[k].ts /\ ~Duplicated(data, i)) =>
                          result.df[k].a = i

----------------------------------------------------------------------------
(* Further claims about process_reg_cols *)

\* C19 (as claimed): after a pass every top-level string of the written
\* specification that names a group of exactly one column is replaced by
\* that column's name, and every other top-level string is left as
\* written.
C19_StringLeaves ==
    FirstPassReturned =>
        \A i \in DOMAIN given[Root] :
            given[Root][i].v.t = "str" =>
                TopItems[i].v =
                    IF IsSingleColumnGroup(column_groups, given[Root][i].v)
                    THEN Str(column_groups[given[Root][i].v.s][1])
                    ELSE given[Root][i].v

\* the column name line 316 looks for
ExpectedAggName(key) == key[1] \o "_" \o key[2] \o "_agg"

\* the aggregation requests of this pass whose expected column was in the
\* dataset when the pass began
MetExisting ==
    {n \in DOMAIN rewrites : InColumns(atCall.columns, ExpectedAggName(rewrites[n].key))}

\* C20: when the dataset already holds the column
\* '<group_id>_<agg_func>_agg' of an aggregation request, the request is
\* rewritten to that name, the name is recorded in the cache, cd.agg_group
\* is not invoked for the pair, and every column the pass adds comes from
\* an agg_group invocation for another pair or from a derivation call.
C20_ExistingAggregate ==
    /\ \A n \in MetExisting :
          LET key == rewrites[n].key
          IN  /\ rewrites[n].name = ExpectedAggName(key)
              /\ key \in DOMAIN agg_cache /\ agg_cache[key] = ExpectedAggName(key)
              /\ key \notin Range(aggCalls)
    /\ MetExisting # {} =>
          /\ Len(columns) - Len(atCall.columns) <= Len(aggCalls) + Len(fnCalls)
          /\ SubSeq(columns, 1, Len(atCall.columns)) = atCall.columns

\* a container whose agg_group would have named the column differently
\* met the existing column twice and one other pair
C20_Witness ==
    /\ phase = "returned" /\ cdKind = "DummyCapData"
    /\ Cardinality(MetExisting) = 1 /\ Len(rewrites) = 2
    /\ aggCalls = << <<"multi", "sum">> >>

----------------------------------------------------------------------------
(* Claims about the recursion of process_reg_cols *)

\* the tuple nodes of a specification: its aggregation and derivation
\* requests, each named by its dict and its position
TupleNodes(h) ==
    UNION {{<<d, i>> : i \in {j \in DOMAIN h[d] : IsTuple(h[d][j].v)}} : d \in DOMAIN h}

\* the tuple nodes rewritten to a string since the pass began
RewrittenNodes ==
    Cardinality(TupleNodes(atCall.params)) - Cardinality(TupleNodes(original_calc_params))

C21_RestartsBounded ==
    /\ restarts <= RewrittenNodes
    /\ restarts <= Cardinality(TupleNodes(atCall.params))

\* a call made from inside a call is a call into a strictly deeper node,
\* or a restart from the root made in the step that rewrote one tuple node
C21_CallProgress ==
    (stack # << >> /\ Len(stack') = Len(stack) + 1) =>
        LET callee == stack'[Len(stack')]
        IN  \/ Len(callee.dict_path) > Len(Top.dict_path)
            \/ /\ callee = DictFrame(Root, << >>)
               /\ restarts' = restarts + 1
               /\ Cardinality(TupleNodes(original_calc_params'))
                      = Cardinality(TupleNodes(original_calc_params)) - 1

C21_Terminates ==
    (phase = "running" /\ given \notin CyclicParams) ~> (phase \in {"returned", "raised"})

SpecDepth(h) ==
    IF TupleNodes(h) = {} THEN 0
    ELSE MaxOf({Len(n[1]) + 1 : n \in TupleNodes(h)})

\* C22 (as claimed): at every moment of a pass the number of nested
\* active calls of process_reg_cols is at most the depth of the
\* specification tree plus a constant (one for the top-level call and one
\* for a restart), however many tuple nodes the specification holds.
C22_DepthBound ==
    ~IsCyclic => Len(stack) <= SpecDepth(atCall.params) + 2

----------------------------------------------------------------------------
(* Further claims about the filter chain *)

\* the steps that exist before and after the transition
Kept == DOMAIN steps \cap DOMAIN steps'

\* the parameters of a step, its data and its input left out
ParamsOf(step) == [step EXCEPT !.data = NoneData, !.input = 0]

ParamChanged(k) == k \in Kept /\ ParamsOf(steps'[k]) # ParamsOf(steps[k])
DataChanged(j) == j \in Kept /\ steps'[j].data # steps[j].data

\* what one operation on the chain may change
C23_Transition ==
    /\ \A j \in Kept : steps'[j].input = steps[j].input
    /\ \A k \in Kept :
          ParamChanged(k) =>
              /\ cd_data' = cd_data
              /\ \A j \in 1 .. (k - 1) : ~DataChanged(j) /\ ~ParamChanged(j)
    /\ ran' # << >> =>
          /\ \A j \in 1 .. (ran'[1].k - 1) : ~DataChanged(j)
          /\ \A i \in DOMAIN ran' : ran'[i].k = ran'[1].k + i - 1
          /\ ran'[1].k > 1 => cd_data' = cd_data
    /\ \A j \in Kept : DataChanged(j) => \E i \in DOMAIN ran' : ran'[i].k = j

\* C23: a change of a parameter of step k, and every recomputation that
\* begins at step k, leaves the base dataset and the data of every step
\* upstream of k as they were and rebinds no step's input; only step k and
\* the steps downstream of it get new data.  A new step is computed
\* without a change to any step that existed.
C23_SingleDirection == [][C23_Transition]_vars

\* the range of the second step was changed: the second step was
\* recomputed over the rows the first step holds
C23_Witness ==
    /\ error = "none"
    /\ Len(steps) = 2
    /\ steps[2].type = "FilterIrradiance" /\ steps[2].range = <<500, 800>>
    /\ Len(ran) = 1 /\ ran[1].k = 2 /\ ran[1].outcome = "set"
    /\ Len(steps[1].data.rows) = 3
    /\ Len(steps[2].data.rows) = 2

----------------------------------------------------------------------------
(* Further claims about process_reg_cols *)

\* what one step of a pass may change in the container
C24_Transition ==
    /\ column_groups' = column_groups
    /\ Len(columns') >= Len(columns)
    /\ SubSeq(columns', 1, Len(columns)) = columns
    /\ columns' # columns =>
          /\ Len(columns') = Len(columns) + 1
          /\ LET new == columns'[Len(columns')]
             IN  \/ /\ Len(aggCalls') = Len(aggCalls) + 1
                    /\ fnCalls' = fnCalls
                    /\ new = agg_group(cdKind, aggCalls'[Len(aggCalls')][1],
                                       aggCalls'[Len(aggCalls')][2])
                 \/ /\ Len(fnCalls') = Len(fnCalls) + 1
                    /\ aggCalls' = aggCalls
                    /\ new = fnCalls'[Len(fnCalls')].f

\* C24: no step of a pass adds, removes or changes an entry of
\* cd.column_groups or removes or renames a column of cd.data; a column
\* is added only by an invocation of cd.agg_group, under the name it
\* returned, or by an invocation of a derivation function, under the
\* function's name.
C24_ResolverFrame == [][C24_Transition]_vars

\* the scenario's pass added two aggregate columns and one derived column
\* behind the six columns the dataset had
C24_Witness ==
    /\ IsScenario /\ phase = "returned"
    /\ Len(aggCalls) = 2 /\ Len(fnCalls) = 1
    /\ Len(columns) = Len(ScenarioColumns) + 3
    /\ SubSeq(columns, 1, Len(ScenarioColumns)) = ScenarioColumns

\* the derivation-request nodes of a specification, each named by its
\* dict_path
FnNodes(h) ==
    UNION {{d \o <<h[d][i].k>> : i \in {j \in DOMAIN h[d] : h[d][j].v.t = "fn"}} :
           d \in DOMAIN h}

\* C25: during a pass no derivation-request node has its function invoked
\* twice, every invocation is for a derivation-request node of the
\* specification the pass began with, and when the pass has returned
\* every such node has had its one invocation.
C25_InvokedOnce ==
    /\ \A m, n \in DOMAIN fnCalls : fnCalls[m].path = fnCalls[n].path => m = n
    /\ \A n \in DOMAIN fnCalls : fnCalls[n].path \in FnNodes(atCall.params)
    /\ phase = "returned" =>
          \A q \in FnNodes(atCall.params) : \E n \in DOMAIN fnCalls : fnCalls[n].path = q

\* a derivation nested in a derivation, resolved through three restarts
\* or more, each suspended loop resumed
C25_Witness ==
    /\ phase = "returned" /\ passes = 1
    /\ column_groups = SmallGroups
    /\ Cardinality(FnNodes(atCall.params)) = 2
    /\ Len(fnCalls) = 2
    /\ restarts >= 3

\* the items of a parameter map, whatever their order
ItemSet(items) == Range(items)

\* the specification is nested_calc_dict in one of the two key orders
IsKeyOrderTwin ==
    /\ given \in {Params(FixtureSpec), Params(SwappedSpec)}
    /\ column_groups = FixtureGroups

\* what the pass on nested_calc_dict as written passes to each function
TwinKwargs(f) ==
    CASE f = "test_func1" -> {Item("power", Str("metered_power_kw")),
                              Item("cell_temp", Str("test_func2"))}
      [] f = "test_func2" -> {Item("poa", Str(agg_group(cdKind, "irr_poa", "mean"))),
                              Item("bom", Str("test_func3"))}
      [] f = "test_func3" -> {Item("poa", Str(agg_group(cdKind, "irr_poa", "mean"))),
                              Item("temp_amb", Str(agg_group(cdKind, "temp_amb", "mean"))),
                              Item("wind_speed", Str(agg_group(cdKind, "wind_speed", "mean")))}
      [] f = "test_func4" -> {Item("poa", Str(agg_group(cdKind, "irr_poa", "mean"))),
                              Item("rpoa", Str(agg_group(cdKind, "irr_rpoa", "mean")))}

\* C26 (as claimed): nested_calc_dict and the specification that differs
\* from it only in the order of the two keys of one parameter map are
\* resolved alike: neither pass raises, both leave the same specification,
\* invoke the same functions with the same keyword arguments and give
\* the dataset the same set of columns.
C26_KeyOrderIndependence ==
    (IsKeyOrderTwin /\ passes = 1) =>
        /\ phase # "raised"
        /\ \A n \in DOMAIN fnCalls : ItemSet(fnCalls[n].kwargs) = TwinKwargs(fnCalls[n].f)
        /\ phase = "returned" =>
              /\ TopItems = << Item("power_tc", Str("test_func1")),
                               Item("irr_total", Str("test_func4")) >>
              /\ {fnCalls[n].f : n \in DOMAIN fnCalls}
                     = {"test_func1", "test_func2", "test_func3", "test_func4"}
              /\ Cardinality(Range(columns)) = 8

\* what the dataset column `name` holds: the result of the last invocation
\* of the function of that name, identified by its keyword arguments
ColumnHolds(name) ==
    LET last == MaxOf({n \in DOMAIN fnCalls : fnCalls[n].f = name})
    IN  fnCalls[last].kwargs

\* C27 (as claimed): after a pass the column named by the string a
\* derivation node was rewritten to holds the result computed from that
\* node's own resolved parameter map, and two nodes with different
\* resolved parameter maps are not rewritten to the name of one column.
C27_ConsistentColumnNaming ==
    phase = "returned" =>
        /\ \A n \in DOMAIN fnCalls : ColumnHolds(fnCalls[n].f) = fnCalls[n].kwargs
        /\ \A m, n \in DOMAIN fnCalls :
              fnCalls[m].kwargs # fnCalls[n].kwargs => fnCalls[m].f # fnCalls[n].f

----------------------------------------------------------------------------
(* Claims about CapTest *)

\* the lists have one length; the first step reads the base container (0)
\* and every other step the step before it
C28_Linked ==
    /\ Len(steps) = Len(step_widgets)
    /\ \A i \in DOMAIN steps : steps[i].input = i - 1

\* no step that stays in the list gets another input; the list shrinks
\* only by becoming empty, together with the list of widgets; it grows
\* by one step and one widget at the end
C28_Transition ==
    /\ \A j \in DOMAIN steps \cap DOMAIN steps' : steps'[j].input = steps[j].input
    /\ Len(steps') < Len(steps) => (steps' = << >> /\ step_widgets' = << >>)
    /\ Len(steps') > Len(steps) =>
          /\ Len(steps') = Len(steps) + 1
          /\ step_widgets' = Append(step_widgets, steps'[Len(steps')].type)

\* C28: after any sequence of add_step and reset_instance_list calls
\* (and of parameter and data changes) steps and step_widgets have the
\* same length, the input of the first step is the base container, the
\* input of every other step is the step before it, no step's input is
\* changed after the step was created, and reset_instance_list leaves
\* both lists empty.
C28_ChainLinking == []C28_Linked /\ [][C28_Transition]_vars

\* a chain of two steps of different classes, the second one reading
\* the first
C28_Witness ==
    /\ Len(steps) = 2 /\ Len(step_widgets) = 2
    /\ steps[1].input = 0 /\ steps[2].input = 1
    /\ steps[1].type # steps[2].type
    /\ steps[2].data = _update_value(steps[2], steps[1].data).data

\* add_step of a FilterIrradiance step ended in one of the exceptions that
\* the computation of its range raises (filters.py 50-56), before any
\* step was computed
IrradianceAddFailed ==
    /\ error = "none"
    /\ error' \in {"TypeError", "KeyError", "ValueError"}
    /\ ran' = << >>
    /\ steps' = steps

\* what add_step leaves behind
C29_Transition ==
    /\ ~IrradianceAddFailed
    /\ Len(steps') = Len(steps) + 1 =>
          LET k == Len(steps')
              new == steps'[k]
              up == InputData(steps', cd_data, k)
              poa == {cd_data.rows[i].v[PoaColumn] : i \in DOMAIN cd_data.rows}
          IN  /\ (new.type = "FilterIrradiance" /\ poa # {}) =>
                    new.range = <<MinOf(poa), MaxOf(poa)>>
              /\ new.type = "FilterTime" =>
                    new.period = <<cd_data.rows[1].ts, cd_data.rows[Len(cd_data.rows)].ts>>
              /\ new.type \in {"FilterIrradiance", "FilterTime"} =>
                    new.data.rows = up.rows

\* C29 (as claimed): add_step of a FilterIrradiance step succeeds on every
\* base dataset and gives the step the range (minimum, maximum) of the
\* base dataset's POA column; add_step of a FilterTime step gives the step
\* the period (first, last timestamp) of the base dataset; right after
\* add_step the new step holds the rows of its upstream node.
C29_FreshStepKeepsAll == [][C29_Transition]_vars

----------------------------------------------------------------------------
(* A further claim about reindex_datetime *)

\* missing_intervals: df_index_length - data_index_length
MissingIntervals == Len(result.df) - Len(call_args.data)

\* C30 (as claimed): when reindex_datetime returns, every input row whose
\* timestamp does not repeat the timestamp of an earlier input row is a
\* row of the returned frame, with its value unchanged, and for an input
\* without duplicate timestamps missing_intervals is not negative.
C30_NoMeasurementLost ==
    (op = "reindex_datetime" /\ result # << >> /\ result.exc = "none") =>
        LET data == call_args.data
        IN  /\ \A i \in DOMAIN data :
                  ~Duplicated(data, i) => \E k \in DOMAIN result.df : result.df[k] = data[i]
            /\ ~HasDuplicates(data) => MissingIntervals >= 0

====
